---- MODULE Spec2Model ----
(***************************************************************************)
(* The CSV table editor of unmessify (src/editor.js): the CSV parser and   *)
(* serializer as operators over character sequences, and the editor state *)
(* (originalData, currentData, currentFile, hasChanges) as a state machine *)
(* with one action per event handler.                                      *)
(*                                                                         *)
(* A string is a sequence of one-character strings; the empty string is    *)
(* << >>.  A table is [headers |-> sequence of strings, rows |-> sequence  *)
(* of [id |-> integer, values |-> sequence of strings]], as parseCSV       *)
(* builds it.                                                              *)
(***************************************************************************)
EXTENDS Integers, Sequences, FiniteSets, TLC

(***************************************************************************)
(* Characters and strings                                                  *)
(***************************************************************************)
QUOTE == "\""
COMMA == ","
LF == "\n"
CR == "\r"
SPACE == " "

\* The characters String.prototype.trim removes, as far as the alphabet goes.
Whitespace == {SPACE, LF, CR, "\t"}

RECURSIVE TrimLeft(_)
TrimLeft(s) ==
    IF s # << >> /\ Head(s) \in Whitespace THEN TrimLeft(Tail(s)) ELSE s

RECURSIVE TrimRight(_)
TrimRight(s) ==
    IF s # << >> /\ s[Len(s)] \in Whitespace
    THEN TrimRight(SubSeq(s, 1, Len(s) - 1))
    ELSE s

\* String.prototype.trim
Trim(s) == TrimRight(TrimLeft(s))

Contains(s, c) == \E i \in 1..Len(s) : s[i] = c

\* stringValue.replace(/"/g, '""')
RECURSIVE DoubleQuotes(_)
DoubleQuotes(s) ==
    IF s = << >> THEN << >>
    ELSE IF Head(s) = QUOTE
         THEN <<QUOTE, QUOTE>> \o DoubleQuotes(Tail(s))
         ELSE <<Head(s)>> \o DoubleQuotes(Tail(s))

\* Array.prototype.join(',') over an array of strings
RECURSIVE Join(_)
Join(fields) ==
    IF fields = << >> THEN << >>
    ELSE IF Len(fields) = 1 THEN fields[1]
         ELSE fields[1] \o <<COMMA>> \o Join(Tail(fields))

(***************************************************************************)
(* CSV parser (parseCSVRecords, parseCSV)                                  *)
(***************************************************************************)
\* currentRecord.some(field => field.length > 0)
SomeNonEmpty(record) == \E k \in 1..Len(record) : record[k] # << >>

\* The push of the pending field, and of the record when it is not blank.
FlushRecord(records, currentRecord, currentField) ==
    LET rec == Append(currentRecord, Trim(currentField))
    IN  IF SomeNonEmpty(rec) THEN Append(records, rec) ELSE records

\* The while loop of parseCSVRecords from index i (1-based) on, and the
\* handling of the last record after it.
RECURSIVE ScanCSV(_, _, _, _, _, _)
ScanCSV(csvText, i, records, currentRecord, currentField, inQuotes) ==
    IF i > Len(csvText)
    THEN IF Trim(currentField) # << >> \/ Len(currentRecord) > 0
         THEN FlushRecord(records, currentRecord, currentField)
         ELSE records
    ELSE LET char == csvText[i]
             next == IF i + 1 <= Len(csvText) THEN csvText[i + 1] ELSE "undefined"
         IN  IF char = QUOTE
             THEN IF inQuotes /\ next = QUOTE
                  THEN ScanCSV(csvText, i + 2, records, currentRecord,
                               Append(currentField, QUOTE), inQuotes)
                  ELSE ScanCSV(csvText, i + 1, records, currentRecord,
                               currentField, ~inQuotes)
             ELSE IF ~inQuotes /\ char = COMMA
             THEN ScanCSV(csvText, i + 1, records,
                          Append(currentRecord, Trim(currentField)), << >>, inQuotes)
             ELSE IF ~inQuotes /\ (char = LF \/ char = CR)
             THEN LET skip == IF char = CR /\ next = LF THEN 2 ELSE 1
                  IN  IF Trim(currentField) # << >> \/ Len(currentRecord) > 0
                      THEN ScanCSV(csvText, i + skip,
                                   FlushRecord(records, currentRecord, currentField),
                                   << >>, << >>, inQuotes)
                      ELSE ScanCSV(csvText, i + skip, records, currentRecord,
                                   currentField, inQuotes)
             ELSE ScanCSV(csvText, i + 1, records, currentRecord,
                          Append(currentField, char), inQuotes)

parseCSVRecords(csvText) == ScanCSV(csvText, 1, << >>, << >>, << >>, FALSE)

\* while (record.length < headers.length) record.push('')
PadRecord(record, n) ==
    IF Len(record) < n
    THEN record \o [k \in 1..(n - Len(record)) |-> << >>]
    ELSE record

parseCSV(csvText) ==
    LET records == parseCSVRecords(csvText)
    IN  IF Len(records) = 0
        THEN [headers |-> << >>, rows |-> << >>]
        ELSE LET headers == records[1]
             IN  [headers |-> headers,
                  rows |-> [k \in 1..(Len(records) - 1) |->
                               [id |-> k - 1,
                                values |-> PadRecord(records[k + 1], Len(headers))]]]

(***************************************************************************)
(* CSV serializer (generateCSVContent)                                     *)
(***************************************************************************)
\* A variant of escapeCSVField that quotes a field without doubling the quotes
\* inside it.
escapeCSVFieldNoDoubling(field) ==
    IF Contains(field, COMMA) \/ Contains(field, QUOTE)
       \/ Contains(field, LF) \/ Contains(field, CR)
    THEN <<QUOTE>> \o field \o <<QUOTE>>
    ELSE field

escapeCSVField(field) ==
    IF Contains(field, COMMA) \/ Contains(field, QUOTE)
       \/ Contains(field, LF) \/ Contains(field, CR)
    THEN <<QUOTE>> \o DoubleQuotes(field) \o <<QUOTE>>
    ELSE field

CSVLine(values) ==
    Join([k \in 1..Len(values) |-> escapeCSVField(values[k])]) \o <<LF>>

RECURSIVE CSVRows(_)
CSVRows(rows) ==
    IF rows = << >> THEN << >>
    ELSE CSVLine(rows[1].values) \o CSVRows(Tail(rows))

generateCSVContent(table) == CSVLine(table.headers) \o CSVRows(table.rows)

(***************************************************************************)
(* JSON.stringify and JSON.parse on the editor's data.  The editor data is *)
(* either the empty object {} (the state before any load) or a table; a    *)
(* JSON text is a character sequence like any other string.                *)
(***************************************************************************)
BACKSLASH == "\\"

\* {} : the object without properties, the initial originalData/currentData
EmptyObject == << >>

Digits == <<"0", "1", "2", "3", "4", "5", "6", "7", "8", "9">>

RECURSIVE NatToString(_)
NatToString(n) ==
    IF n < 10 THEN <<Digits[n + 1]>>
    ELSE NatToString(n \div 10) \o <<Digits[(n % 10) + 1]>>

\* The escape JSON.stringify writes for one character of a string.
EscapeJSONChar(c) ==
    CASE c = QUOTE     -> <<BACKSLASH, QUOTE>>
      [] c = BACKSLASH -> <<BACKSLASH, BACKSLASH>>
      [] c = LF        -> <<BACKSLASH, "n">>
      [] c = CR        -> <<BACKSLASH, "r">>
      [] c = "\t"      -> <<BACKSLASH, "t">>
      [] OTHER         -> <<c>>

RECURSIVE EscapeJSON(_)
EscapeJSON(s) ==
    IF s = << >> THEN << >> ELSE EscapeJSONChar(Head(s)) \o EscapeJSON(Tail(s))

StringifyString(s) == <<QUOTE>> \o EscapeJSON(s) \o <<QUOTE>>

\* JSON.stringify of an array of strings (row.values, headers)
StringifyValues(values) ==
    <<"[">> \o Join([k \in 1..Len(values) |-> StringifyString(values[k])])
            \o <<"]">>

KeyId == <<QUOTE, "i", "d", QUOTE, ":">>
KeyValues == <<QUOTE, "v", "a", "l", "u", "e", "s", QUOTE, ":">>
KeyHeaders == <<QUOTE, "h", "e", "a", "d", "e", "r", "s", QUOTE, ":">>
KeyRows == <<QUOTE, "r", "o", "w", "s", QUOTE, ":">>

StringifyRow(row) ==
    <<"{">> \o KeyId \o NatToString(row.id) \o <<COMMA>>
            \o KeyValues \o StringifyValues(row.values) \o <<"}">>

\* JSON.stringify(originalData), JSON.stringify(currentData)
JSONStringify(data) ==
    IF data = EmptyObject THEN <<"{", "}">>
    ELSE <<"{">> \o KeyHeaders \o StringifyValues(data.headers) \o <<COMMA>>
                 \o KeyRows \o <<"[">>
                 \o Join([k \in 1..Len(data.rows) |-> StringifyRow(data.rows[k])])
                 \o <<"]", "}">>

\* The parsers return [v |-> the value read, i |-> the index after it].
HasPrefixAt(text, i, lit) ==
    /\ i + Len(lit) - 1 <= Len(text)
    /\ \A k \in 1..Len(lit) : text[i + k - 1] = lit[k]

UnescapeJSONChar(c) ==
    CASE c = "n" -> LF
      [] c = "r" -> CR
      [] c = "t" -> "\t"
      [] OTHER   -> c

\* The characters of a string from index i (after the opening quote) on.
RECURSIVE ParseStringBody(_, _, _)
ParseStringBody(text, i, acc) ==
    IF text[i] = QUOTE THEN [v |-> acc, i |-> i + 1]
    ELSE IF text[i] = BACKSLASH
         THEN ParseStringBody(text, i + 2, Append(acc, UnescapeJSONChar(text[i + 1])))
         ELSE ParseStringBody(text, i + 1, Append(acc, text[i]))

ParseString(text, i) == ParseStringBody(text, i + 1, << >>)

\* The elements of an array of strings from index i on (text[i] is past "[").
RECURSIVE ParseValuesBody(_, _, _)
ParseValuesBody(text, i, acc) ==
    IF text[i] = "]" THEN [v |-> acc, i |-> i + 1]
    ELSE IF text[i] = COMMA THEN ParseValuesBody(text, i + 1, acc)
    ELSE LET s == ParseString(text, i)
         IN  ParseValuesBody(text, s.i, Append(acc, s.v))

ParseValues(text, i) == ParseValuesBody(text, i + 1, << >>)

DigitValue(c) == CHOOSE d \in 0..9 : Digits[d + 1] = c

IsDigit(c) == \E d \in 1..10 : Digits[d] = c

RECURSIVE ParseNat(_, _, _)
ParseNat(text, i, acc) ==
    IF i <= Len(text) /\ IsDigit(text[i])
    THEN ParseNat(text, i + 1, 10 * acc + DigitValue(text[i]))
    ELSE [v |-> acc, i |-> i]

\* {"id":n,"values":[...]} at index i
ParseRow(text, i) ==
    LET id == ParseNat(text, i + 1 + Len(KeyId), 0)
        values == ParseValues(text, id.i + 1 + Len(KeyValues))
    IN  [v |-> [id |-> id.v, values |-> values.v], i |-> values.i + 1]

RECURSIVE ParseRowsBody(_, _, _)
ParseRowsBody(text, i, acc) ==
    IF text[i] = "]" THEN [v |-> acc, i |-> i + 1]
    ELSE IF text[i] = COMMA THEN ParseRowsBody(text, i + 1, acc)
    ELSE LET r == ParseRow(text, i)
         IN  ParseRowsBody(text, r.i, Append(acc, r.v))

\* JSON.parse of a text JSON.stringify wrote for the editor data
JSONParse(text) ==
    IF ~HasPrefixAt(text, 2, KeyHeaders) THEN EmptyObject
    ELSE LET headers == ParseValues(text, 2 + Len(KeyHeaders))
             rows == ParseRowsBody(text, headers.i + 1 + Len(KeyRows) + 1, << >>)
         IN  [headers |-> headers.v, rows |-> rows.v]

\* JSON.parse(JSON.stringify(data)): a deep copy in a fresh object
JSONCopy(data) == JSONParse(JSONStringify(data))

(***************************************************************************)
(* Inputs: the files of fileDefinitions the model selects, the CSV texts   *)
(* the server may answer with, and the strings a user types into a cell.   *)
(***************************************************************************)
\* How many handler steps a behaviour of the model takes.
MaxSteps == 6

\* How many fetches of selectFile may be in flight at once.
MaxPending == 2

FileLaundry == "VITC-A-L.csv"
FileMenu == "VITC-M-N.csv"
Files == {FileLaundry, FileMenu}

\* currentFile = null
NoFile == "null"

\* "D,R\n1,x\n2\n": the second record is shorter than the header
CsvPadded == <<"D", COMMA, "R", LF, "1", COMMA, "x", LF, "2", LF>>

\* "" : no record at all
CsvEmpty == << >>

\* "D\n1,x\n": the record is longer than the header
CsvLongRecord == <<"D", LF, "1", COMMA, "x", LF>>

\* 'D , "R"\r\n\r\n"a,""\nb",x': padding blanks, CRLF, a blank line, a quoted
\* field with a comma, an escaped quote and a line break, no final newline
CsvQuoted ==
    <<"D", SPACE, COMMA, SPACE, QUOTE, "R", QUOTE, CR, LF, CR, LF,
      QUOTE, "a", COMMA, QUOTE, QUOTE, LF, "b", QUOTE, COMMA, "x">>

FileTexts(filename) ==
    IF filename = FileLaundry THEN {CsvPadded, CsvEmpty}
    ELSE {CsvLongRecord, CsvQuoted}

\* 'a,"\nb' : a comma, a double quote and a line break in one field
ValueSpecial == <<"a", COMMA, QUOTE, LF, "b">>

\* What input.value may be: empty, or a text with the characters that need
\* escaping.
EditValues == {<< >>, ValueSpecial}

(***************************************************************************)
(* The editor state                                                        *)
(***************************************************************************)
VARIABLES
    originalData,   \* let originalData
    currentData,    \* let currentData
    currentFile,    \* let currentFile
    hasChanges,     \* let hasChanges
    aliased,        \* originalData and currentData are one and the same object
    editorVisible,  \* elements.editorSection.style.display is 'block': selectFile
                    \* shows the section after a load, cancelEdit hides it; the
                    \* table and the editor buttons are inside it
    buttonsShown,   \* what updateButtonStates last set: downloadBtn and submitBtn
                    \* are displayed, resetBtn and previewBtn are enabled
    previewOpen,    \* elements.previewModal.style.display is 'flex'
    pending,        \* per file, the fetches of loadFileData still in flight
    op,             \* the handler that ran last, with its inputs
    deletedIds,     \* the ids deleteSelectedRow removed since the table was loaded
    committed,      \* currentData as it was at the last saveChanges since the load
    dataFile,       \* the file whose text originalData and currentData were parsed from
    listeners,      \* how many 'input', 'change' and 'click' listeners each
                    \* bindTableEvents has added to elements.editTable so far
    steps,          \* handler steps taken
    rtTable,        \* round trip: the table handed to generateCSVContent
    rtCsv,          \* round trip: the text generateCSVContent returned
    rtParsed,       \* round trip: what parseCSV made of that text
    rtPc            \* round trip: "table", "serialized" or "parsed"

editorVars ==
    <<originalData, currentData, currentFile, hasChanges, aliased, editorVisible,
      buttonsShown, previewOpen, pending, op, deletedIds, committed, dataFile,
      listeners, steps>>

rtVars == <<rtTable, rtCsv, rtParsed, rtPc>>

(***************************************************************************)
(* The service worker (sw.js): the cache storage, the install and activate *)
(* phases, and the fetch handler, one run of it per intercepted request.   *)
(***************************************************************************)
\* The fetch events a worker gets are at most this many.
MaxFetchEvents == 2

CACHE_NAME == "unmessify-v20250901"

\* The bucket of an earlier version of the worker, and a bucket of another name
OldCacheName == "unmessify-v20250801"

OtherCacheName == "unmessify-data"

ShellUrl == "/index.html"

ScriptUrl == "/app.js"

\* A same-origin URL the manifest does not list
SearchUrl == "/editor.html?file=VITC-A-L.csv"

\* A cross-origin URL
FontUrl == "https://fonts.example/font.css"

urlsToCache == {ShellUrl, ScriptUrl}

\* event.request: its URL and its destination
Requests ==
    {[url |-> ShellUrl, destination |-> "document"],
     [url |-> SearchUrl, destination |-> "document"],
     [url |-> ScriptUrl, destination |-> "script"],
     [url |-> FontUrl, destination |-> "style"]}

NoRequest == [url |-> "none", destination |-> "none"]

\* undefined where a response is expected
NoResponse == [status |-> 0, type |-> "none", body |-> "none"]

Response(status, type, body) == [status |-> status, type |-> type, body |-> body]

\* What the network may answer for a URL when it answers at all
NetworkResponses(url) ==
    IF url = FontUrl
    THEN {Response(200, "cors", "v2"), Response(0, "opaque", "v2")}
    ELSE {Response(200, "basic", "v2"), Response(404, "basic", "v2")}

\* The cache storage the worker may find when it is installed: a sequence of
\* buckets in the order of their creation, each a name and its entries by URL.
Bucket(name, entries) == [name |-> name, entries |-> entries]

InitialCaches ==
    {<< >>,
     <<Bucket(OldCacheName, ShellUrl :> Response(200, "basic", "v0"))>>,
     <<Bucket(OldCacheName, ShellUrl :> Response(200, "basic", "v0")),
       Bucket(CACHE_NAME, SearchUrl :> Response(200, "basic", "v0")),
       Bucket(OtherCacheName, << >>)>>}

VARIABLES
    caches,         \* the CacheStorage of the origin
    swPhase,        \* "parsed", "adding" (the cache is open), "installed",
                    \* "activating", "activated", or "redundant" when the promise
                    \* given to waitUntil in the install handler rejected
    installFailed,  \* caches.open or cache.addAll of the install handler rejected
    consoleLog,     \* the messages written with console.log
    cacheNames,     \* activate: the names of caches.keys() not yet dealt with
    handlers,       \* per fetch event, where its handler is and what it saw
    puts,           \* the cache.put calls of the fetch handler not yet performed
    written         \* the cache.put calls of the fetch handler performed so far

swVars == <<caches, swPhase, installFailed, consoleLog, cacheNames, handlers, puts,
            written>>

vars == <<editorVars, rtVars, swVars>>

EventIds == 1..MaxFetchEvents

\* matched: what caches.match(event.request) gave; fetched: fetch(event.request)
\* was called; network: the response it resolved with; failed: it rejected;
\* delivered: what the promise given to event.respondWith resolved with.
IdleHandler ==
    [pc |-> "idle", request |-> NoRequest, matched |-> NoResponse, fetched |-> FALSE,
     network |-> NoResponse, failed |-> FALSE, delivered |-> NoResponse]

FindCache(cs, name) ==
    IF \E k \in 1..Len(cs) : cs[k].name = name
    THEN CHOOSE k \in 1..Len(cs) : cs[k].name = name
    ELSE 0

\* caches.match(request): the entry of the first bucket, in creation order,
\* that has one for the URL; undefined when there is none
RECURSIVE cachesMatch(_, _)
cachesMatch(cs, url) ==
    IF cs = << >> THEN NoResponse
    ELSE IF url \in DOMAIN cs[1].entries THEN cs[1].entries[url]
         ELSE cachesMatch(Tail(cs), url)

\* caches.open(name) creates the bucket when there is none of that name
cachesOpen(cs, name) ==
    IF FindCache(cs, name) # 0 THEN cs ELSE Append(cs, Bucket(name, << >>))

\* cache.put(url, response) on the bucket of that name
cachePut(cs, name, url, response) ==
    [cs EXCEPT ![FindCache(cs, name)].entries = (url :> response) @@ @]

cachesDelete(cs, name) == SelectSeq(cs, LAMBDA c : c.name # name)

SWIdle ==
    /\ caches = << >>
    /\ swPhase = "parsed"
    /\ installFailed = FALSE
    /\ consoleLog = {}
    /\ cacheNames = {}
    /\ handlers = [e \in EventIds |-> IdleHandler]
    /\ puts = {}
    /\ written = {}

\* asked: window.confirm was shown; confirmed: it was not answered with Cancel;
\* priorFile: currentFile as the handler found it; download: the name the
\* link of downloadCSV saves under; opened: showPRModal displayed the modal;
\* calls: how many listeners of editTable the event ran; checkedBefore and
\* checkedAfter: checkbox.checked of the clicked row before and after the event.
NoOp == [name |-> "none", rowId |-> -1, colIndex |-> -1, value |-> << >>,
         ids |-> {}, asked |-> FALSE, confirmed |-> TRUE, priorFile |-> "null",
         download |-> "null", opened |-> FALSE, calls |-> 0,
         checkedBefore |-> FALSE, checkedAfter |-> FALSE]

Op(name) == [NoOp EXCEPT !.name = name]

IdsOf(data) == {data.rows[k].id : k \in 1..Len(data.rows)}

Max(S) == CHOOSE m \in S : \A n \in S : n <= m

\* A variant of FindRow that takes the row id for the position of the row:
\* currentData.rows[rowId].
FindRowByIndex(rows, rowId) ==
    IF rowId + 1 \in 1..Len(rows) THEN rowId + 1 ELSE 0

\* currentData.rows.find(r => r.id === rowId): the index of the first such row,
\* 0 for undefined
FindRow(rows, rowId) ==
    IF \E k \in 1..Len(rows) : rows[k].id = rowId
    THEN CHOOSE k \in 1..Len(rows) :
             /\ rows[k].id = rowId
             /\ \A j \in 1..(k - 1) : rows[j].id # rowId
    ELSE 0

\* A variant of FilterRows that removes the row of the first selected id only:
\* rows.filter(row => row.id !== selectedRowIds[0]).
RECURSIVE FilterRowsFirstSelected(_, _)
FilterRowsFirstSelected(rows, selectedRowIds) ==
    LET first == CHOOSE id \in selectedRowIds : \A other \in selectedRowIds : id <= other
    IN  IF rows = << >> THEN << >>
        ELSE IF rows[1].id = first
             THEN FilterRowsFirstSelected(Tail(rows), selectedRowIds)
             ELSE <<rows[1]>> \o FilterRowsFirstSelected(Tail(rows), selectedRowIds)

\* rows.filter(row => !selectedRowIds.includes(row.id))
RECURSIVE FilterRows(_, _)
FilterRows(rows, selectedRowIds) ==
    IF rows = << >> THEN << >>
    ELSE IF rows[1].id \in selectedRowIds
         THEN FilterRows(Tail(rows), selectedRowIds)
         ELSE <<rows[1]>> \o FilterRows(Tail(rows), selectedRowIds)

\* checkForChanges: hasChanges = originalStr !== currentStr
ChangesDetected(original, current) == JSONStringify(original) # JSONStringify(current)

\* No saveChanges since the table was loaded.
NoCommit == EmptyObject

\* calculateChanges.  A change is {type, description}; the description is kept
\* as its parts (the "Row n" position, 0 where the text has none, and the first
\* two values it joins), and rowId names the row the change was pushed for.
FirstTwo(values) == SubSeq(values, 1, IF Len(values) < 2 THEN Len(values) ELSE 2)

Change(type, row, position) ==
    [type |-> type, rowId |-> row.id,
     description |-> [position |-> position, values |-> FirstTwo(row.values)]]

\* currentData.rows.forEach: rows whose id is not in originalRowIds
RECURSIVE AddedChanges(_, _, _)
AddedChanges(original, current, k) ==
    IF k > Len(current.rows) THEN << >>
    ELSE (IF current.rows[k].id \notin IdsOf(original)
          THEN <<Change("added", current.rows[k], k)>>
          ELSE << >>) \o AddedChanges(original, current, k + 1)

\* originalData.rows.forEach: rows whose id is not in currentRowIds
RECURSIVE DeletedChanges(_, _, _)
DeletedChanges(original, current, k) ==
    IF k > Len(original.rows) THEN << >>
    ELSE (IF original.rows[k].id \notin IdsOf(current)
          THEN <<Change("deleted", original.rows[k], 0)>>
          ELSE << >>) \o DeletedChanges(original, current, k + 1)

\* A variant of hasRowChanges that compares the two arrays themselves, which
\* are never the same object: currentRow.values !== originalRow.values.
hasRowChangesByReference(currentRow, originalRow) == TRUE

\* JSON.stringify(currentRow.values) !== JSON.stringify(originalRow.values)
hasRowChanges(currentRow, originalRow) ==
    StringifyValues(currentRow.values) # StringifyValues(originalRow.values)

\* currentData.rows.forEach: rows found in originalData with other values
RECURSIVE ModifiedChanges(_, _, _)
ModifiedChanges(original, current, k) ==
    IF k > Len(current.rows) THEN << >>
    ELSE LET j == FindRow(original.rows, current.rows[k].id)
         IN  (IF j # 0 /\ hasRowChanges(current.rows[k], original.rows[j])
              THEN <<Change("modified", current.rows[k], k)>>
              ELSE << >>) \o ModifiedChanges(original, current, k + 1)

calculateChanges(original, current) ==
    AddedChanges(original, current, 1) \o DeletedChanges(original, current, 1)
        \o ModifiedChanges(original, current, 1)

PendingCount == pending[FileLaundry] + pending[FileMenu]

Quiescent == PendingCount = 0

EditorInit ==
    /\ originalData = EmptyObject
    /\ currentData = EmptyObject
    /\ currentFile = NoFile
    /\ hasChanges = FALSE
    /\ aliased = FALSE
    /\ editorVisible = FALSE
    /\ buttonsShown = FALSE
    /\ previewOpen = FALSE
    /\ pending = [f \in Files |-> 0]
    /\ op = NoOp
    /\ deletedIds = {}
    /\ committed = NoCommit
    /\ dataFile = NoFile
    /\ listeners = 0
    /\ steps = 0

RTIdle ==
    /\ rtTable = EmptyObject
    /\ rtCsv = << >>
    /\ rtParsed = EmptyObject
    /\ rtPc = "idle"

Init == EditorInit /\ RTIdle /\ SWIdle

Step == steps < MaxSteps /\ steps' = steps + 1

(***************************************************************************)
(* The handlers                                                            *)
(***************************************************************************)
\* An in-place mutation of the object currentData refers to also shows in
\* originalData when both refer to the same object.
OriginalAfter(newCurrent) == IF aliased THEN newCurrent ELSE originalData

\* renderTable, as far as it outlives the innerHTML it writes: its call of
\* bindTableEvents adds three more listeners to elements.editTable, and
\* nothing removes the ones added before.
RenderTable == listeners' = listeners + 1

\* The listeners of one kind that an event on elements.editTable runs: every
\* one that was added.
ListenersRun(n) == n

\* checkForChanges, with updateButtonStates
CheckForChanges(newOriginal, newCurrent) ==
    /\ hasChanges' = ChangesDetected(newOriginal, newCurrent)
    /\ buttonsShown' = hasChanges'

\* selectFile up to the fetch of loadFileData: the confirmation when there are
\* unsaved changes, currentFile = filename, and the request goes out.
SelectFile(filename, confirmed) ==
    /\ Step
    /\ PendingCount < MaxPending
    /\ hasChanges \/ confirmed
    /\ op' = [Op("selectFile") EXCEPT !.asked = hasChanges, !.confirmed = confirmed,
                                      !.priorFile = currentFile]
    /\ IF hasChanges /\ ~confirmed
       THEN UNCHANGED <<currentFile, pending>>
       ELSE /\ currentFile' = filename
            /\ pending' = [pending EXCEPT ![filename] = @ + 1]
    /\ UNCHANGED <<originalData, currentData, hasChanges, aliased, editorVisible,
                   buttonsShown, previewOpen, deletedIds, committed, dataFile,
                   listeners, rtVars, swVars>>

\* The rest of loadFileData and selectFile once the response arrived with
\* status OK: parse, two deep copies, renderTable, updateButtonStates, and the
\* editor section is shown.
FetchResolved(filename, csvText) ==
    /\ Step
    /\ pending[filename] > 0
    /\ pending' = [pending EXCEPT ![filename] = @ - 1]
    /\ LET data == parseCSV(csvText)
       IN  /\ originalData' = JSONCopy(data)
           /\ currentData' = JSONCopy(data)
    /\ aliased' = FALSE
    /\ buttonsShown' = hasChanges
    /\ editorVisible' = TRUE
    /\ deletedIds' = {}
    /\ committed' = NoCommit
    /\ dataFile' = filename
    /\ RenderTable
    /\ op' = Op("loaded")
    /\ UNCHANGED <<currentFile, hasChanges, previewOpen, rtVars, swVars>>

\* The fetch rejected or the status was not OK: loadFileData throws, selectFile
\* alerts.
FetchFailed(filename) ==
    /\ Step
    /\ pending[filename] > 0
    /\ pending' = [pending EXCEPT ![filename] = @ - 1]
    /\ op' = Op("loadFailed")
    /\ UNCHANGED <<originalData, currentData, currentFile, hasChanges, aliased,
                   editorVisible, buttonsShown, previewOpen, deletedIds, committed,
                   dataFile, listeners, rtVars, swVars>>

\* The row ids an event may carry: those of the rows of the table, and one id
\* that no row has.
RowIdInputs == IdsOf(currentData) \cup {Max(IdsOf(currentData) \cup {-1}) + 1}

\* The column indexes of the inputs rendered for a row (one per value).
ColIndexInputs(rowId) ==
    LET k == FindRow(currentData.rows, rowId)
    IN  IF k = 0 THEN {0} ELSE 0..(Len(currentData.rows[k].values) - 1)

handleCellChange(rowId, colIndex, newValue) ==
    /\ Step
    /\ editorVisible
    /\ op' = [Op("setCell") EXCEPT !.rowId = rowId, !.colIndex = colIndex,
                                   !.value = newValue,
                                   !.calls = ListenersRun(listeners)]
    /\ LET k == FindRow(currentData.rows, rowId)
       IN  IF k # 0
           THEN LET newCurrent ==
                        [currentData EXCEPT !.rows[k].values[colIndex + 1] = newValue]
                IN  /\ currentData' = newCurrent
                    /\ originalData' = OriginalAfter(newCurrent)
                    /\ CheckForChanges(OriginalAfter(newCurrent), newCurrent)
           ELSE UNCHANGED <<currentData, originalData, hasChanges, buttonsShown>>
    /\ UNCHANGED <<currentFile, aliased, editorVisible, previewOpen, pending,
                   deletedIds, committed, dataFile, listeners, rtVars, swVars>>

\* A variant of NewRowId that numbers the new row by its position:
\* currentData.rows.length.
NewRowIdByLength(data) == Len(data.rows)

\* Math.max(...currentData.rows.map(r => r.id), -1) + 1
NewRowId(data) == Max(IdsOf(data) \cup {-1}) + 1

\* A variant of addRow that puts the new row in front of the others:
\* currentData.rows.unshift(newRow).
addRowUnshift ==
    /\ Step
    /\ editorVisible
    /\ LET newRowId == NewRowId(currentData)
           newRow == [id |-> newRowId,
                      values |-> [k \in 1..Len(currentData.headers) |-> << >>]]
           newCurrent == [currentData EXCEPT !.rows = <<newRow>> \o @]
       IN  /\ currentData' = newCurrent
           /\ originalData' = OriginalAfter(newCurrent)
           /\ CheckForChanges(OriginalAfter(newCurrent), newCurrent)
           /\ op' = [Op("addRow") EXCEPT !.rowId = newRowId]
    /\ RenderTable
    /\ UNCHANGED <<currentFile, aliased, editorVisible, previewOpen, pending,
                   deletedIds, committed, dataFile, rtVars, swVars>>

addRow ==
    /\ Step
    /\ editorVisible
    /\ LET newRowId == NewRowId(currentData)
           newRow == [id |-> newRowId,
                      values |-> [k \in 1..Len(currentData.headers) |-> << >>]]
           newCurrent == [currentData EXCEPT !.rows = Append(@, newRow)]
       IN  /\ currentData' = newCurrent
           /\ originalData' = OriginalAfter(newCurrent)
           /\ CheckForChanges(OriginalAfter(newCurrent), newCurrent)
           /\ op' = [Op("addRow") EXCEPT !.rowId = newRowId]
    /\ RenderTable
    /\ UNCHANGED <<currentFile, aliased, editorVisible, previewOpen, pending,
                   deletedIds, committed, dataFile, rtVars, swVars>>

\* deleteSelectedRow with the ids of the checked boxes; with none checked it
\* returns at once.
deleteSelectedRow(selectedRowIds, confirmed) ==
    /\ Step
    /\ editorVisible
    /\ selectedRowIds # {}
    /\ op' = [Op("deleteRows") EXCEPT !.ids = selectedRowIds, !.asked = TRUE,
                                      !.confirmed = confirmed]
    /\ IF confirmed
       THEN LET newCurrent ==
                    [currentData EXCEPT !.rows = FilterRows(@, selectedRowIds)]
            IN  /\ currentData' = newCurrent
                /\ originalData' = OriginalAfter(newCurrent)
                /\ CheckForChanges(OriginalAfter(newCurrent), newCurrent)
                /\ deletedIds' = deletedIds \cup (selectedRowIds \cap IdsOf(currentData))
                /\ RenderTable
       ELSE UNCHANGED <<currentData, originalData, hasChanges, buttonsShown, deletedIds,
                        listeners>>
    /\ UNCHANGED <<currentFile, aliased, editorVisible, previewOpen, pending,
                   committed, dataFile, rtVars, swVars>>

\* A variant of resetChanges that does not call checkForChanges.
resetChangesNoCheck(confirmed) ==
    /\ Step
    /\ editorVisible
    /\ buttonsShown
    /\ op' = [Op("reset") EXCEPT !.asked = TRUE, !.confirmed = confirmed]
    /\ IF confirmed
       THEN /\ currentData' = JSONCopy(originalData)
            /\ aliased' = FALSE
            /\ RenderTable
       ELSE UNCHANGED <<currentData, aliased, listeners>>
    /\ UNCHANGED <<originalData, currentFile, hasChanges, buttonsShown, editorVisible,
                   previewOpen, pending, deletedIds, committed, dataFile, rtVars, swVars>>

\* resetChanges; the button is enabled when updateButtonStates saw changes.
resetChanges(confirmed) ==
    /\ Step
    /\ editorVisible
    /\ buttonsShown
    /\ op' = [Op("reset") EXCEPT !.asked = TRUE, !.confirmed = confirmed]
    /\ IF confirmed
       THEN /\ currentData' = JSONCopy(originalData)
            /\ aliased' = FALSE
            /\ CheckForChanges(originalData, currentData')
            /\ RenderTable
       ELSE UNCHANGED <<currentData, aliased, hasChanges, buttonsShown, listeners>>
    /\ UNCHANGED <<originalData, currentFile, editorVisible, previewOpen, pending,
                   deletedIds, committed, dataFile, rtVars, swVars>>

\* A variant of cancelEdit that shows the confirmation and goes on whatever
\* the answer is.
cancelEditWhateverAnswer(confirmed) ==
    /\ Step
    /\ editorVisible
    /\ hasChanges \/ confirmed
    /\ op' = [Op("cancelEdit") EXCEPT !.asked = hasChanges, !.confirmed = confirmed]
    /\ editorVisible' = FALSE
    /\ currentFile' = NoFile
    /\ hasChanges' = FALSE
    /\ UNCHANGED <<originalData, currentData, aliased, buttonsShown, previewOpen,
                   pending, deletedIds, committed, dataFile, listeners, rtVars, swVars>>

\* cancelEdit; it asks only when there are unsaved changes.
cancelEdit(confirmed) ==
    /\ Step
    /\ editorVisible
    /\ hasChanges \/ confirmed
    /\ op' = [Op("cancelEdit") EXCEPT !.asked = hasChanges, !.confirmed = confirmed]
    /\ IF hasChanges /\ ~confirmed
       THEN UNCHANGED <<editorVisible, currentFile, hasChanges>>
       ELSE /\ editorVisible' = FALSE
            /\ currentFile' = NoFile
            /\ hasChanges' = FALSE
    /\ UNCHANGED <<originalData, currentData, aliased, buttonsShown, previewOpen,
                   pending, deletedIds, committed, dataFile, listeners, rtVars, swVars>>

\* showPreview; the button is enabled when updateButtonStates saw changes.
showPreview ==
    /\ Step
    /\ editorVisible
    /\ buttonsShown
    /\ op' = Op("showPreview")
    /\ previewOpen' = (IF hasChanges THEN TRUE ELSE previewOpen)
    /\ UNCHANGED <<originalData, currentData, currentFile, hasChanges, aliased,
                   editorVisible, buttonsShown, pending, deletedIds, committed,
                   dataFile, listeners, rtVars, swVars>>

closePreviewModal ==
    /\ Step
    /\ previewOpen
    /\ op' = Op("closePreview")
    /\ previewOpen' = FALSE
    /\ UNCHANGED <<originalData, currentData, currentFile, hasChanges, aliased,
                   editorVisible, buttonsShown, pending, deletedIds, committed,
                   dataFile, listeners, rtVars, swVars>>

\* A variant of saveChanges that keeps a reference instead of a copy:
\* originalData = currentData.
saveChangesShared ==
    /\ Step
    /\ previewOpen
    /\ op' = Op("save")
    /\ originalData' = currentData
    /\ aliased' = TRUE
    /\ hasChanges' = FALSE
    /\ buttonsShown' = FALSE
    /\ previewOpen' = FALSE
    /\ committed' = currentData
    /\ UNCHANGED <<currentData, currentFile, editorVisible, pending, deletedIds,
                   dataFile, listeners, rtVars, swVars>>

\* saveChanges, the button of the preview modal
saveChanges ==
    /\ Step
    /\ previewOpen
    /\ op' = Op("save")
    /\ originalData' = JSONCopy(currentData)
    /\ aliased' = FALSE
    /\ hasChanges' = FALSE
    /\ buttonsShown' = FALSE
    /\ previewOpen' = FALSE
    /\ committed' = currentData
    /\ UNCHANGED <<currentData, currentFile, editorVisible, pending, deletedIds,
                   dataFile, listeners, rtVars, swVars>>

\* checkbox.checked = !checkbox.checked, once per click listener that runs
RECURSIVE ToggleTimes(_, _)
ToggleTimes(checked, n) == IF n = 0 THEN checked ELSE ToggleTimes(~checked, n - 1)

\* A click on the row of rowId outside its inputs, with the checkbox of the
\* row as the click finds it: each click listener of editTable flips the
\* checkbox and calls handleRowSelection.
rowClick(rowId, checked) ==
    /\ Step
    /\ editorVisible
    /\ rowId \in IdsOf(currentData)
    /\ op' = [Op("rowClick") EXCEPT
                  !.rowId = rowId,
                  !.calls = ListenersRun(listeners),
                  !.checkedBefore = checked,
                  !.checkedAfter = ToggleTimes(checked, ListenersRun(listeners))]
    /\ UNCHANGED <<originalData, currentData, currentFile, hasChanges, aliased,
                   editorVisible, buttonsShown, previewOpen, pending, deletedIds,
                   committed, dataFile, listeners, rtVars, swVars>>

\* updateButtonStates left downloadBtn and submitBtn displayed, in the editor
\* section that is displayed
ExportButtonsShown == editorVisible /\ buttonsShown

\* downloadCSV, the click handler of downloadBtn: the text of currentData is
\* saved under the name currentFile
downloadCSV ==
    /\ Step
    /\ ExportButtonsShown
    /\ op' = [Op("downloadCSV") EXCEPT !.value = generateCSVContent(currentData),
                                       !.download = currentFile]
    /\ UNCHANGED <<originalData, currentData, currentFile, hasChanges, aliased,
                   editorVisible, buttonsShown, previewOpen, pending, deletedIds,
                   committed, dataFile, listeners, rtVars, swVars>>

\* showPRModal, the click handler of submitBtn; it returns at once when
\* hasChanges is false
showPRModal ==
    /\ Step
    /\ ExportButtonsShown
    /\ op' = [Op("showPRModal") EXCEPT !.opened = hasChanges]
    /\ UNCHANGED <<originalData, currentData, currentFile, hasChanges, aliased,
                   editorVisible, buttonsShown, previewOpen, pending, deletedIds,
                   committed, dataFile, listeners, rtVars, swVars>>

Next ==
    \/ \E f \in Files, confirmed \in BOOLEAN : SelectFile(f, confirmed)
    \/ \E f \in Files : \E csvText \in FileTexts(f) : FetchResolved(f, csvText)
    \/ \E f \in Files : FetchFailed(f)
    \/ /\ editorVisible
       /\ \E rowId \in RowIdInputs : \E colIndex \in ColIndexInputs(rowId) :
              \E newValue \in EditValues : handleCellChange(rowId, colIndex, newValue)
    \/ addRow
    \/ /\ editorVisible
       /\ \E S \in (SUBSET RowIdInputs) \ {{}}, confirmed \in BOOLEAN :
              deleteSelectedRow(S, confirmed)
    \/ \E confirmed \in BOOLEAN : resetChanges(confirmed)
    \/ \E confirmed \in BOOLEAN : cancelEdit(confirmed)
    \/ showPreview
    \/ closePreviewModal
    \/ saveChanges
    \/ downloadCSV
    \/ showPRModal
    \/ /\ editorVisible
       /\ \E rowId \in IdsOf(currentData), checked \in BOOLEAN : rowClick(rowId, checked)

Spec == Init /\ [][Next]_vars

(***************************************************************************)
(* The CSV round trip as a state machine of its own: a table, the text     *)
(* generateCSVContent writes for it, the table parseCSV reads back.        *)
(***************************************************************************)
\* The rows of a round-trip table are at most this many, their ids at most
\* this large.
RTMaxRows == 2

\* A field with a blank in front, which the parser trims
ValuePadded == <<SPACE, "x">>

\* '"\r\nx' : a leading double quote and a CRLF pair inside a field
ValueCRLF == <<QUOTE, CR, LF, "x">>

RTFields == {<< >>, ValueCRLF, ValueSpecial, ValuePadded}

\* Header records as parseCSV leaves them: none, or trimmed fields not all empty
RTHeaders == {<< >>, <<<<"D">>>>, <<<<"D">>, ValueSpecial>>, <<<< >>, <<"R">>>>}

\* The values of a row under a header: one per column; under a one-column
\* header also one more than that, a record longer than the header.
RTValues(headers) ==
    [1..Len(headers) -> RTFields]
        \cup (IF Len(headers) = 1 THEN [1..2 -> RTFields] ELSE {})

\* Rows with strictly increasing ids
RTRows(headers) ==
    UNION {{rows \in [1..n -> [id : 0..RTMaxRows, values : RTValues(headers)]] :
               \A k \in 1..(n - 1) : rows[k].id < rows[k + 1].id} : n \in 0..RTMaxRows}

RTInit ==
    /\ EditorInit
    /\ rtPc = "table"
    /\ \E headers \in RTHeaders : \E rows \in RTRows(headers) :
           rtTable = [headers |-> headers, rows |-> rows]
    /\ rtCsv = << >>
    /\ rtParsed = EmptyObject
    /\ SWIdle

RTSerialize ==
    /\ rtPc = "table"
    /\ rtCsv' = generateCSVContent(rtTable)
    /\ rtPc' = "serialized"
    /\ UNCHANGED <<rtTable, rtParsed, editorVars, swVars>>

RTParse ==
    /\ rtPc = "serialized"
    /\ rtParsed' = parseCSV(rtCsv)
    /\ rtPc' = "parsed"
    /\ UNCHANGED <<rtTable, rtCsv, editorVars, swVars>>

RTNext == RTSerialize \/ RTParse

SpecRT == RTInit /\ [][RTNext]_vars

(***************************************************************************)
(* The service worker's phases and its fetch handler                       *)
(***************************************************************************)
SWInit ==
    /\ EditorInit
    /\ RTIdle
    /\ caches \in InitialCaches
    /\ swPhase = "parsed"
    /\ installFailed = FALSE
    /\ consoleLog = {}
    /\ cacheNames = {}
    /\ handlers = [e \in EventIds |-> IdleHandler]
    /\ puts = {}
    /\ written = {}

\* A variant of InstallSettled without the .catch: a rejection of the chain
\* is the rejection of the promise given to event.waitUntil.
InstallSettledUncaught(failed) == IF failed THEN "redundant" ELSE "installed"

\* What becomes of the worker when the promise given to event.waitUntil
\* settles: the .catch turns every rejection into a resolved promise.
InstallSettled(failed) == "installed"

\* install: caches.open(CACHE_NAME) resolves or rejects
InstallOpen(ok) ==
    /\ swPhase = "parsed"
    /\ IF ok
       THEN /\ caches' = cachesOpen(caches, CACHE_NAME)
            /\ consoleLog' = consoleLog \cup {"Opened cache"}
            /\ swPhase' = "adding"
            /\ UNCHANGED installFailed
       ELSE /\ installFailed' = TRUE
            /\ consoleLog' = consoleLog \cup {"Cache install failed:"}
            /\ swPhase' = InstallSettled(TRUE)
            /\ UNCHANGED caches
    /\ UNCHANGED <<cacheNames, handlers, puts, written, editorVars, rtVars>>

\* install: cache.addAll(urlsToCache) stores a response for every URL when
\* all of them were fetched with an OK status, and nothing otherwise
InstallAddAll(ok) ==
    /\ swPhase = "adding"
    /\ IF ok
       THEN /\ caches' = [caches EXCEPT ![FindCache(caches, CACHE_NAME)].entries =
                              [u \in urlsToCache |-> Response(200, "basic", "v1")] @@ @]
            /\ swPhase' = InstallSettled(FALSE)
            /\ UNCHANGED <<installFailed, consoleLog>>
       ELSE /\ installFailed' = TRUE
            /\ consoleLog' = consoleLog \cup {"Cache install failed:"}
            /\ swPhase' = InstallSettled(TRUE)
            /\ UNCHANGED caches
    /\ UNCHANGED <<cacheNames, handlers, puts, written, editorVars, rtVars>>

\* A variant of ShouldDelete that looks for the name of the version before.
ShouldDeleteOldVersion(cacheName) == cacheName = OldCacheName

\* activate: cacheName !== CACHE_NAME
ShouldDelete(cacheName) == cacheName # CACHE_NAME

\* activate: caches.keys() resolved, the map over the names begins
ActivateKeys ==
    /\ swPhase = "installed"
    /\ swPhase' = "activating"
    /\ cacheNames' = {caches[k].name : k \in 1..Len(caches)}
    /\ UNCHANGED <<caches, installFailed, consoleLog, handlers, puts, written,
                   editorVars, rtVars>>

\* activate: one name of the map; the deletions resolve in any order
ActivateName(cacheName) ==
    /\ swPhase = "activating"
    /\ cacheName \in cacheNames
    /\ cacheNames' = cacheNames \ {cacheName}
    /\ IF ShouldDelete(cacheName)
       THEN /\ caches' = cachesDelete(caches, cacheName)
            /\ consoleLog' = consoleLog \cup {"Deleting old cache:"}
       ELSE UNCHANGED <<caches, consoleLog>>
    /\ UNCHANGED <<swPhase, installFailed, handlers, puts, written, editorVars,
                   rtVars>>

\* activate: Promise.all resolved
ActivateDone ==
    /\ swPhase = "activating"
    /\ cacheNames = {}
    /\ swPhase' = "activated"
    /\ UNCHANGED <<caches, installFailed, consoleLog, cacheNames, handlers, puts,
                   written, editorVars, rtVars>>

\* fetch: the handler is called and calls caches.match(event.request)
FetchEvent(e, request) ==
    /\ swPhase = "activated"
    /\ handlers[e].pc = "idle"
    /\ \A d \in EventIds : d < e => handlers[d].pc # "idle"
    /\ handlers' = [handlers EXCEPT ![e] =
                        [IdleHandler EXCEPT !.pc = "match", !.request = request]]
    /\ UNCHANGED <<caches, swPhase, installFailed, consoleLog, cacheNames, puts,
                   written, editorVars, rtVars>>

\* A variant of AfterMatch that goes to the network on a hit as well.
AfterMatchRevalidate(response) == "fetch"

\* fetch: if (response) return response; else return fetch(event.request)
AfterMatch(response) == IF response # NoResponse THEN "done" ELSE "fetch"

\* fetch: caches.match resolved
FetchMatched(e) ==
    /\ handlers[e].pc = "match"
    /\ LET response == cachesMatch(caches, handlers[e].request.url)
           next == AfterMatch(response)
       IN  handlers' = [handlers EXCEPT
                            ![e].pc = next,
                            ![e].matched = response,
                            ![e].fetched = (next = "fetch"),
                            ![e].delivered = IF next = "done" THEN response ELSE @]
    /\ UNCHANGED <<caches, swPhase, installFailed, consoleLog, cacheNames, puts,
                   written, editorVars, rtVars>>

\* A variant of ShouldCache that stores whatever the network answered.
ShouldCacheAny(response) == TRUE

\* fetch: !(!response || response.status !== 200 || response.type !== 'basic')
ShouldCache(response) ==
    response # NoResponse /\ response.status = 200 /\ response.type = "basic"

\* fetch: fetch(event.request) resolved; the put is started and not awaited
FetchNetworkResolved(e, response) ==
    /\ handlers[e].pc = "fetch"
    /\ handlers' = [handlers EXCEPT ![e].pc = "done", ![e].network = response,
                                    ![e].delivered = response]
    /\ puts' = IF ShouldCache(response)
               THEN puts \cup {[event |-> e, url |-> handlers[e].request.url,
                                response |-> response]}
               ELSE puts
    /\ UNCHANGED <<caches, swPhase, installFailed, consoleLog, cacheNames, written,
                   editorVars, rtVars>>

\* fetch: caches.open(CACHE_NAME).then(cache => cache.put(event.request,
\* responseToCache)) ran
FetchCachePut(p) ==
    /\ p \in puts
    /\ puts' = puts \ {p}
    /\ caches' = cachePut(cachesOpen(caches, CACHE_NAME), CACHE_NAME, p.url, p.response)
    /\ written' = written \cup {[event |-> p.event, cache |-> CACHE_NAME,
                                url |-> p.url, response |-> p.response]}
    /\ UNCHANGED <<swPhase, installFailed, consoleLog, cacheNames, handlers,
                   editorVars, rtVars>>

\* A variant of FallsBack that answers every failed request with the shell.
FallsBackAlways(request) == TRUE

\* fetch: event.request.destination === 'document'
FallsBack(request) == request.destination = "document"

\* fetch: fetch(event.request) rejected
FetchNetworkFailed(e) ==
    /\ handlers[e].pc = "fetch"
    /\ handlers' = [handlers EXCEPT
                        ![e].failed = TRUE,
                        ![e].pc = IF FallsBack(handlers[e].request)
                                  THEN "fallback" ELSE "done"]
    /\ UNCHANGED <<caches, swPhase, installFailed, consoleLog, cacheNames, puts,
                   written, editorVars, rtVars>>

\* fetch: caches.match('/index.html') of the .catch resolved
FetchFallbackMatched(e) ==
    /\ handlers[e].pc = "fallback"
    /\ handlers' = [handlers EXCEPT ![e].pc = "done",
                                    ![e].delivered = cachesMatch(caches, ShellUrl)]
    /\ UNCHANGED <<caches, swPhase, installFailed, consoleLog, cacheNames, puts,
                   written, editorVars, rtVars>>

SWNext ==
    \/ \E ok \in BOOLEAN : InstallOpen(ok)
    \/ \E ok \in BOOLEAN : InstallAddAll(ok)
    \/ ActivateKeys
    \/ \E cacheName \in cacheNames : ActivateName(cacheName)
    \/ ActivateDone
    \/ \E e \in EventIds, request \in Requests : FetchEvent(e, request)
    \/ \E e \in EventIds : FetchMatched(e)
    \/ \E e \in EventIds :
           \E response \in NetworkResponses(handlers[e].request.url) :
               FetchNetworkResolved(e, response)
    \/ \E p \in puts : FetchCachePut(p)
    \/ \E e \in EventIds : FetchNetworkFailed(e)
    \/ \E e \in EventIds : FetchFallbackMatched(e)

SpecSW == SWInit /\ [][SWNext]_vars

(***************************************************************************)
(* Properties                                                              *)
(***************************************************************************)
Loaded == originalData # EmptyObject /\ currentData # EmptyObject

\* The values of the row with this id
ValuesOf(data, id) == data.rows[FindRow(data.rows, id)].values

\* C1: whenever no load is in flight, hasChanges is true exactly when
\* currentData differs from originalData.
C1_HasChangesIffDiffers ==
    Quiescent => (hasChanges <=> (currentData # originalData))

\* C2: addRow never assigns an id that a deleted row of this table had.
C2_IdsNeverReused ==
    ~(op.name = "addRow" /\ op.rowId \in deletedIds)

\* C3: addRow appends exactly one row, with id max(ids, -1) + 1 and one empty
\* string per header, and leaves the rows before it and the headers as they were.
C3_AddRowAppends ==
    [][op'.name = "addRow" =>
          /\ Len(currentData'.rows) = Len(currentData.rows) + 1
          /\ SubSeq(currentData'.rows, 1, Len(currentData.rows)) = currentData.rows
          /\ LET newRow == currentData'.rows[Len(currentData'.rows)]
             IN  /\ \A id \in IdsOf(currentData) : id < newRow.id
                 /\ newRow.id = 0 \/ (newRow.id - 1) \in IdsOf(currentData)
                 /\ Len(newRow.values) = Len(currentData.headers)
                 /\ \A c \in 1..Len(newRow.values) : newRow.values[c] = << >>
          /\ currentData'.headers = currentData.headers]_vars

\* C3 witness: addRow ran on a table with ids {0, 2} and gave id 3.
C3_Witness ==
    /\ op.name = "addRow"
    /\ op.rowId = 3
    /\ IdsOf(currentData) = {0, 2, 3}

\* C4: every row of originalData and of currentData has as many values as
\* there are headers.
C4_RowLengthIsHeaderLength ==
    Loaded =>
        /\ \A k \in 1..Len(currentData.rows) :
               Len(currentData.rows[k].values) = Len(currentData.headers)
        /\ \A k \in 1..Len(originalData.rows) :
               Len(originalData.rows[k].values) = Len(originalData.headers)

\* C5: a cell change for a row of the table and a column of the headers
\* replaces that one cell and nothing else of currentData, and leaves
\* originalData alone; a cell change for an id no row has leaves currentData,
\* originalData and hasChanges alone.
C5_SetCellFrame ==
    [][op'.name = "setCell" =>
          LET k == CHOOSE j \in 0..Len(currentData.rows) :
                       \/ j # 0 /\ currentData.rows[j].id = op'.rowId
                       \/ j = 0 /\ op'.rowId \notin IdsOf(currentData)
          IN  IF k # 0
              THEN (op'.colIndex < Len(currentData.headers)) =>
                       /\ currentData'.headers = currentData.headers
                       /\ Len(currentData'.rows) = Len(currentData.rows)
                       /\ \A j \in 1..Len(currentData.rows) :
                              /\ currentData'.rows[j].id = currentData.rows[j].id
                              /\ Len(currentData'.rows[j].values)
                                     = Len(currentData.rows[j].values)
                              /\ \A c \in 1..Len(currentData.rows[j].values) :
                                     currentData'.rows[j].values[c] =
                                         IF j = k /\ c = op'.colIndex + 1
                                         THEN op'.value
                                         ELSE currentData.rows[j].values[c]
                       /\ originalData' = originalData
              ELSE UNCHANGED <<currentData, originalData, hasChanges>>]_vars

\* C5 witness: a cell change wrote a new value into a row that is not the
\* first one of the original table.
C5_Witness ==
    /\ op.name = "setCell"
    /\ op.rowId \in IdsOf(currentData)
    /\ op.rowId > 0
    /\ ValuesOf(currentData, op.rowId)[op.colIndex + 1] = op.value
    /\ op.rowId \in IdsOf(originalData)
    /\ ValuesOf(originalData, op.rowId)[op.colIndex + 1] # op.value
    /\ hasChanges

\* The rows of a sequence whose index is in keep, in their order
RECURSIVE RowsAt(_, _, _)
RowsAt(rows, keep, k) ==
    IF k > Len(rows) THEN << >>
    ELSE (IF k \in keep THEN <<rows[k]>> ELSE << >>) \o RowsAt(rows, keep, k + 1)

\* C6: a confirmed deletion leaves exactly the rows whose id is not selected,
\* in their order; the row count drops by the number of rows removed; the
\* headers and originalData stay.
C6_DeleteRemovesSelected ==
    [][(op'.name = "deleteRows" /\ op'.confirmed) =>
          LET kept == {k \in 1..Len(currentData.rows) :
                           currentData.rows[k].id \notin op'.ids}
          IN  /\ currentData'.rows = RowsAt(currentData.rows, kept, 1)
              /\ Len(currentData'.rows) =
                     Len(currentData.rows)
                         - Cardinality((1..Len(currentData.rows)) \ kept)
              /\ currentData'.headers = currentData.headers
              /\ originalData' = originalData]_vars

\* C6 witness: a deletion whose selection held the id of a row and an id of no
\* row, with a row remaining.
C6_Witness ==
    /\ op.name = "deleteRows"
    /\ op.confirmed
    /\ op.ids \cap deletedIds # {}
    /\ op.ids \ deletedIds # {}
    /\ Len(currentData.rows) > 0

\* C7: after a confirmed reset currentData equals originalData, hasChanges is
\* false, the diff is empty, and originalData is what it was.
C7_ResetRestores ==
    [][(op'.name = "reset" /\ op'.confirmed) =>
          /\ currentData' = originalData'
          /\ hasChanges' = FALSE
          /\ calculateChanges(originalData', currentData') = << >>
          /\ originalData' = originalData]_vars

\* C7 witness: a reset brought back rows that had been deleted.
C7_Witness ==
    /\ op.name = "reset"
    /\ op.confirmed
    /\ deletedIds # {}
    /\ deletedIds \subseteq IdsOf(currentData)

KindsFor(changes, id) == {changes[k].type : k \in {j \in 1..Len(changes) : changes[j].rowId = id}}

CountFor(changes, id) == Cardinality({k \in 1..Len(changes) : changes[k].rowId = id})

\* C9: the diff has exactly one 'added' change per id only in currentData,
\* exactly one 'deleted' change per id only in originalData, exactly one
\* 'modified' change per id in both whose values differ, and nothing else.
C9_DiffClassifiesRows ==
    Loaded =>
        LET changes == calculateChanges(originalData, currentData)
            O == IdsOf(originalData)
            C == IdsOf(currentData)
        IN  /\ \A id \in C \ O :
                   CountFor(changes, id) = 1 /\ KindsFor(changes, id) = {"added"}
            /\ \A id \in O \ C :
                   CountFor(changes, id) = 1 /\ KindsFor(changes, id) = {"deleted"}
            /\ \A id \in O \cap C :
                   IF ValuesOf(currentData, id) # ValuesOf(originalData, id)
                   THEN CountFor(changes, id) = 1
                            /\ KindsFor(changes, id) = {"modified"}
                   ELSE CountFor(changes, id) = 0
            /\ \A k \in 1..Len(changes) : changes[k].rowId \in O \cup C

\* C9 witness: a cell change on one original row gave a diff of exactly one
\* change, 'modified', for that row.
C9_Witness ==
    /\ Loaded
    /\ op.name = "setCell"
    /\ op.rowId \in IdsOf(originalData)
    /\ LET changes == calculateChanges(originalData, currentData)
       IN  /\ Len(changes) = 1
           /\ changes[1].type = "modified"
           /\ changes[1].rowId = op.rowId

\* No row is blank: each has a field that is not empty.
NoBlankRows(table) == \A k \in 1..Len(table.rows) : SomeNonEmpty(table.rows[k].values)

\* No field has leading or trailing whitespace.
FieldsTrimmed(table) ==
    /\ \A c \in 1..Len(table.headers) : Trim(table.headers[c]) = table.headers[c]
    /\ \A k \in 1..Len(table.rows) : \A c \in 1..Len(table.rows[k].values) :
           Trim(table.rows[k].values[c]) = table.rows[k].values[c]

RoundTripInput(table) == NoBlankRows(table) /\ FieldsTrimmed(table)

\* C10 as stated: parse(serialize(table)) equals the table, row ids included.
C10_RoundTripWithIds ==
    (rtPc = "parsed" /\ RoundTripInput(rtTable)) => rtParsed = rtTable

\* C10 as amended: parse(serialize(table)) has the headers, the row order and
\* the row values of the table, and its row ids are the positions 0, 1, ...
\* (so it equals the table exactly when the table's ids are its positions).
C10_RoundTripValues ==
    (rtPc = "parsed" /\ RoundTripInput(rtTable)) =>
        /\ rtParsed.headers = rtTable.headers
        /\ Len(rtParsed.rows) = Len(rtTable.rows)
        /\ \A k \in 1..Len(rtTable.rows) :
               /\ rtParsed.rows[k].values = rtTable.rows[k].values
               /\ rtParsed.rows[k].id = k - 1
        /\ (rtParsed = rtTable) <=>
               (\A k \in 1..Len(rtTable.rows) : rtTable.rows[k].id = k - 1)

\* C10 witness: a round trip of two rows whose ids are not their positions,
\* with a field that holds a comma, a quote and a line break.
C10_Witness ==
    /\ rtPc = "parsed"
    /\ RoundTripInput(rtTable)
    /\ Len(rtTable.rows) = 2
    /\ rtTable.rows[1].id = 1
    /\ \E k \in 1..2 : \E c \in 1..Len(rtTable.rows[k].values) :
           rtTable.rows[k].values[c] = ValueSpecial
    /\ rtParsed.rows[2].values = rtTable.rows[2].values

\* The handler that ran last was a selectFile that went on to its fetch.
SelectionWentOn == op.name = "selectFile" /\ ~(op.asked /\ ~op.confirmed)

\* C11: when the load of a selected file fails, originalData, currentData,
\* hasChanges and currentFile are what they were before the selection.
C11_FailedLoadKeepsPriorState ==
    [][(SelectionWentOn /\ PendingCount = 1 /\ op'.name = "loadFailed") =>
          /\ currentFile' = op.priorFile
          /\ originalData' = originalData
          /\ currentData' = currentData
          /\ hasChanges' = hasChanges]_vars

Destructive == {"deleteRows", "reset", "selectFile", "cancelEdit"}

\* C12: deleting rows and resetting always ask for confirmation, switching
\* files and cancelling ask when hasChanges is true, and when the answer is no
\* the handler leaves originalData, currentData, currentFile and hasChanges as
\* they were and starts no fetch.
C12_DeclinedChangesNothing ==
    [][op'.name \in Destructive =>
          /\ op'.name \in {"deleteRows", "reset"} => op'.asked
          /\ hasChanges => op'.asked
          /\ (op'.asked /\ ~op'.confirmed) =>
                 UNCHANGED <<originalData, currentData, currentFile, hasChanges,
                             pending>>]_vars

\* C12 witness: with unsaved changes in an open file, cancelEdit asked and the
\* answer was no.
C12_Witness ==
    /\ op.name = "cancelEdit"
    /\ op.asked
    /\ ~op.confirmed
    /\ hasChanges
    /\ editorVisible
    /\ currentFile # NoFile
    /\ currentData # originalData

\* The buckets of the current version tag, as a sequence of none or one
CurrentBuckets(cs) == SelectSeq(cs, LAMBDA c : c.name = CACHE_NAME)

\* C13: when the activate phase is complete no bucket has a name other than
\* CACHE_NAME, and no step of the phase touches the bucket named CACHE_NAME.
C13_ActivateDeletesOldCaches ==
    [][/\ swPhase' = "activated" =>
              \A k \in 1..Len(caches') : caches'[k].name = CACHE_NAME
       /\ swPhase \in {"installed", "activating"} =>
              CurrentBuckets(caches') = CurrentBuckets(caches)]_vars

\* C13 witness: activation is complete, buckets were deleted, and the bucket of
\* the current tag is there with the entry it had before the worker was installed.
C13_Witness ==
    /\ swPhase = "activated"
    /\ "Deleting old cache:" \in consoleLog
    /\ Len(caches) = 1
    /\ caches[1].name = CACHE_NAME
    /\ SearchUrl \in DOMAIN caches[1].entries
    /\ \A e \in EventIds : handlers[e].pc = "idle"

\* C14: the promise the install handler gives to event.waitUntil never
\* rejects; when caches.open or cache.addAll failed, the failure was logged and
\* the worker is installed all the same.
C14_InstallNeverAborts ==
    /\ swPhase # "redundant"
    /\ installFailed =>
           /\ "Cache install failed:" \in consoleLog
           /\ swPhase \in {"installed", "activating", "activated"}

\* C14 witness: cache.addAll failed, the worker was activated all the same and
\* has answered a request from the network.
C14_Witness ==
    /\ installFailed
    /\ "Opened cache" \in consoleLog
    /\ swPhase = "activated"
    /\ \E e \in EventIds :
           /\ handlers[e].pc = "done"
           /\ handlers[e].delivered # NoResponse
           /\ handlers[e].delivered = handlers[e].network

\* C15: a handler whose caches.match found an entry has answered with that
\* entry, has not called fetch, and has started no cache.put.
C15_CacheFirstRead ==
    \A e \in EventIds :
        handlers[e].matched # NoResponse =>
            /\ handlers[e].pc = "done"
            /\ handlers[e].delivered = handlers[e].matched
            /\ ~handlers[e].fetched
            /\ handlers[e].network = NoResponse
            /\ \A p \in puts : p.event # e
            /\ \A w \in written : w.event # e

\* C15 witness: a request for the script was answered from the entry the
\* install phase stored, while the put of an earlier request was still pending.
C15_Witness ==
    \E e \in EventIds :
        /\ handlers[e].pc = "done"
        /\ handlers[e].request.url = ScriptUrl
        /\ handlers[e].matched = Response(200, "basic", "v1")
        /\ handlers[e].delivered = handlers[e].matched
        /\ puts # {}

\* The handler of event e has started a cache.put, pending or performed.
PutStarted(e) == (\E p \in puts : p.event = e) \/ (\E w \in written : w.event = e)

\* C16: a handler whose fetch resolved has answered with the network response
\* itself, and has started a cache.put exactly when that response has status
\* 200 and type 'basic'; every put of the handler, pending or performed, is
\* for the URL of its request and carries its network response, and the
\* performed ones went to the bucket named CACHE_NAME.
C16_MissFetchesAndStores ==
    /\ \A e \in EventIds :
           handlers[e].network # NoResponse =>
               /\ handlers[e].pc = "done"
               /\ handlers[e].matched = NoResponse
               /\ handlers[e].delivered = handlers[e].network
               /\ PutStarted(e) <=>
                      (handlers[e].network.status = 200
                           /\ handlers[e].network.type = "basic")
    /\ \A p \in puts :
           /\ p.url = handlers[p.event].request.url
           /\ p.response = handlers[p.event].network
    /\ \A w \in written :
           /\ w.cache = CACHE_NAME
           /\ w.url = handlers[w.event].request.url
           /\ w.response = handlers[w.event].network
           /\ w.response.status = 200
           /\ w.response.type = "basic"

\* C16 witness: the network response was delivered while the put for it is
\* still pending and no bucket has an entry for the URL.
C16_Witness ==
    \E e \in EventIds :
        /\ handlers[e].pc = "done"
        /\ handlers[e].network = Response(200, "basic", "v2")
        /\ handlers[e].delivered = handlers[e].network
        /\ \E p \in puts : p.event = e
        /\ cachesMatch(caches, handlers[e].request.url) = NoResponse

\* C17: a handler whose fetch rejected answers a request of destination
\* 'document' with what caches.match('/index.html') gives at that moment (the
\* cached shell, or nothing when no bucket has it), and gives no response to a
\* request of any other destination.
C17_OfflineFallback ==
    [][\A e \in EventIds :
           (handlers'[e].failed /\ handlers'[e].pc = "done") =>
               IF handlers'[e].request.destination = "document"
               THEN handlers[e].pc = "fallback" =>
                        handlers'[e].delivered = cachesMatch(caches, ShellUrl)
               ELSE handlers'[e].delivered = NoResponse]_vars

\* C17 witness: a navigation to a URL that is not cached failed on the network
\* and was answered with the shell the install phase stored, and a style
\* request that failed got no response.
C17_Witness ==
    \E e, d \in EventIds :
        /\ handlers[e].pc = "done"
        /\ handlers[e].failed
        /\ handlers[e].request.url = SearchUrl
        /\ handlers[e].delivered = Response(200, "basic", "v1")
        /\ handlers[d].pc = "done"
        /\ handlers[d].failed
        /\ handlers[d].request.destination = "style"
        /\ handlers[d].delivered = NoResponse

\* C18: in the state that follows saveChanges the download and submit buttons
\* are displayed and showPRModal would open the modal.
C18_ExportAvailableAfterSave ==
    op.name = "save" => (ExportButtonsShown /\ hasChanges)

\* C19: whenever no load is in flight and a file is open in the editor,
\* originalData and currentData were parsed from the file named by currentFile;
\* and downloadCSV saves under the name of the file the data came from.
C19_DataBelongsToCurrentFile ==
    /\ (Quiescent /\ editorVisible /\ currentFile # NoFile) => dataFile = currentFile
    /\ op.name = "downloadCSV" => op.download = dataFile

\* The ids of the rows are strictly increasing in row order.
IdsIncreasing(data) ==
    \A j, k \in 1..Len(data.rows) : j < k => data.rows[j].id < data.rows[k].id

\* C20: in every state with a table loaded the row ids of currentData are
\* strictly increasing in row order, hence pairwise distinct, and so are those
\* of originalData.
C20_IdsDistinctIncreasing ==
    Loaded => (IdsIncreasing(currentData) /\ IdsIncreasing(originalData))

\* C20 witness: after an addRow and the deletion of a row in the middle the
\* ids are 0 and 2.
C20_Witness ==
    /\ op.name = "deleteRows"
    /\ op.confirmed
    /\ Len(currentData.rows) = 2
    /\ currentData.rows[1].id = 0
    /\ currentData.rows[2].id = 2
    /\ IdsOf(originalData) = {0, 1}

\* C21: a click on a row outside its inputs flips the checkbox of the row
\* exactly once, and an input event applies exactly one cell update, however
\* often the table was rendered before.
C21_OneHandlerRunPerEvent ==
    /\ op.name = "rowClick" =>
           (op.calls = 1 /\ op.checkedAfter = ~op.checkedBefore)
    /\ op.name = "setCell" => op.calls = 1

====
